---- MODULE Spec2Model ----
(***************************************************************************)
(* Model of retrio's Retry<T> (src/lib.rs): a wrapper that forwards every  *)
(* operation to the wrapped resource and repeats the primitive ones        *)
(* (read, fill_buf, write) while they fail with ErrorKind::Interrupted.    *)
(*                                                                         *)
(* The wrapped resource is one of the three resources of the crate's       *)
(* tests: a PartialRead over a byte slice, a BufReader over such a         *)
(* PartialRead, or a PartialWrite over a Vec<u8>.  What a single attempt   *)
(* on the resource answers is chosen by the environment (the PartialOp     *)
(* script): an error of some kind, or a transfer limited to m bytes.       *)
(* One step of the model is one underlying attempt together with the       *)
(* match arm the wrapper takes on its outcome.                             *)
(***************************************************************************)
EXTENDS Integers, Sequences, FiniteSets, TLC

(* ------------------------------ bounds --------------------------------- *)
\* length of the input data, and largest caller buffer / payload
MaxLen == 2
\* most Interrupted outcomes the environment produces within one call
MaxIntr == 2
\* most bytes the sink is made to hold
MaxSink == 3
\* most read and write calls in one run
MaxCalls == 2

VARIABLES
    inner,      \* Retry::inner, the wrapped resource
    pc,         \* where the single calling thread is
    op,         \* the wrapper operation being executed / last executed
    buf,        \* the caller's buffer argument (out buffer or payload)
    ret,        \* what the last call returned (NoRet while it runs)
    start,      \* the resource and the caller's argument when the call began
    calls,      \* the invocations the current call has made on the resource
    direct,     \* a copy of the original resource, given the same invocations
    reclaimed,  \* what into_inner handed back (NotReclaimed before)
    totals      \* read/write so far: attempts, Interrupted outcomes, calls done

vars == <<inner, pc, op, buf, ret, start, calls, direct, reclaimed, totals>>

(* ------------------------------ values --------------------------------- *)
Min(a, b) == IF a <= b THEN a ELSE b

Data == [i \in 1..MaxLen |-> i]
Zeros(n) == [i \in 1..n |-> 0]
Prefix(s, n) == SubSeq(s, 1, n)
Drop(s, n) == SubSeq(s, n + 1, Len(s))

ErrorKinds == {"Interrupted", "PermissionDenied", "WouldBlock"}

\* io::Result values
Ok(n) == [tag |-> "Ok", n |-> n, view |-> <<>>, kind |-> "None"]
OkView(v) == [tag |-> "OkView", n |-> 0, view |-> v, kind |-> "None"]
OkUnit == [tag |-> "OkUnit", n |-> 0, view |-> <<>>, kind |-> "None"]
Err(k) == [tag |-> "Err", n |-> 0, view |-> <<>>, kind |-> k]
NoRet == [tag |-> "NoRet", n |-> 0, view |-> <<>>, kind |-> "None"]

\* what the environment lets one attempt do
OpErr(k) == [tag |-> "Err", m |-> 0, kind |-> k]
Limited(m) == [tag |-> "Limited", m |-> m, kind |-> "None"]
NoIO == [tag |-> "NoIO", m |-> 0, kind |-> "None"]
PartialOps == {OpErr(k) : k \in ErrorKinds} \cup {Limited(m) : m \in 0..MaxLen}

(* ------------------------- wrapped resources --------------------------- *)
NewPartialRead ==
    [type |-> "PartialRead", input |-> Data, buffer |-> <<>>, cap |-> 0, sink |-> <<>>]
NewBufReader(c) ==
    [type |-> "BufReader", input |-> Data, buffer |-> <<>>, cap |-> c, sink |-> <<>>]
NewPartialWrite ==
    [type |-> "PartialWrite", input |-> <<>>, buffer |-> <<>>, cap |-> 0, sink |-> <<>>]
Resources ==
    {NewPartialRead, NewPartialWrite} \cup {NewBufReader(c) : c \in 1..MaxLen}

NotReclaimed == [type |-> "None", input |-> <<>>, buffer |-> <<>>, cap |-> 0, sink |-> <<>>]

\* inner.read(buf): one read attempt on the source
InnerRead(r, b, pop) ==
    IF pop.tag = "Err"
    THEN [res |-> Err(pop.kind), inner |-> r, buf |-> b]
    ELSE LET n == Min(pop.m, Min(Len(b), Len(r.input)))
         IN [res |-> Ok(n),
             inner |-> [r EXCEPT !.input = Drop(r.input, n)],
             buf |-> Prefix(r.input, n) \o Drop(b, n)]

\* inner.write(buf): one write attempt on the sink
InnerWrite(r, b, pop) ==
    IF pop.tag = "Err"
    THEN [res |-> Err(pop.kind), inner |-> r, buf |-> b]
    ELSE LET n == Min(pop.m, Len(b))
         IN [res |-> Ok(n),
             inner |-> [r EXCEPT !.sink = r.sink \o Prefix(b, n)],
             buf |-> b]

\* inner.fill_buf(): the buffered bytes, after a refill when there are none
InnerFillBuf(r, b, pop) ==
    IF r.buffer # <<>>
    THEN [res |-> OkView(r.buffer), inner |-> r, buf |-> b]
    ELSE IF pop.tag = "Err"
    THEN [res |-> Err(pop.kind), inner |-> r, buf |-> b]
    ELSE LET n == Min(pop.m, Min(r.cap, Len(r.input)))
         IN [res |-> OkView(Prefix(r.input, n)),
             inner |-> [r EXCEPT !.input = Drop(r.input, n),
                                 !.buffer = Prefix(r.input, n)],
             buf |-> b]

\* the outcomes the environment can choose for an attempt
Choices(r, name) ==
    IF name = "fill_buf" /\ r.buffer # <<>> THEN {NoIO} ELSE PartialOps

\* inner.consume(n): marks n buffered bytes as read, performs no I/O
InnerConsume(r, n) ==
    [r EXCEPT !.buffer = Drop(r.buffer, Min(n, Len(r.buffer)))]

ReadComposites == {"read_to_end", "read_to_string", "read_exact"}
BufReadComposites == {"read_until", "read_line"}
WriteComposites == {"flush", "write_all", "write_fmt"}
Composites == ReadComposites \cup BufReadComposites \cup WriteComposites

\* The resource's own composite operation.  Its implementation is outside
\* the crate; it is taken as one invocation whose outcome the environment
\* chooses: an error of any kind that leaves the resource alone, or a
\* success that moves up to m bytes (flush moves none, write_all and
\* write_fmt move the whole payload).
InnerComposite(name, r, b, pop) ==
    IF pop.tag = "Err"
    THEN [res |-> Err(pop.kind), inner |-> r, buf |-> b]
    ELSE IF name \in ReadComposites \cup BufReadComposites
    THEN LET avail == r.buffer \o r.input
             n == Min(pop.m, Len(avail))
             fromBuf == Min(n, Len(r.buffer))
         IN [res |-> IF name = "read_exact" THEN OkUnit ELSE Ok(n),
             inner |-> [r EXCEPT !.buffer = Drop(r.buffer, fromBuf),
                                 !.input = Drop(r.input, n - fromBuf)],
             buf |-> IF name = "read_exact"
                     THEN Prefix(avail, Min(n, Len(b))) \o Drop(b, Min(n, Len(b)))
                     ELSE b \o Prefix(avail, n)]
    ELSE IF name = "flush"
    THEN [res |-> OkUnit, inner |-> r, buf |-> b]
    ELSE [res |-> OkUnit, inner |-> [r EXCEPT !.sink = r.sink \o b], buf |-> b]

Invoke(name, r, b, pop) ==
    CASE name = "read" -> InnerRead(r, b, pop)
      [] name = "write" -> InnerWrite(r, b, pop)
      [] name = "fill_buf" -> InnerFillBuf(r, b, pop)
      [] name = "consume" ->
            [res |-> OkUnit, inner |-> InnerConsume(r, b[1]), buf |-> b]
      [] OTHER -> InnerComposite(name, r, b, pop)

(* ------------------------- history of attempts ------------------------- *)
Entry(name, b, pop, res) ==
    [name |-> name, arg |-> b, pop |-> pop, res |-> res]

Interrupts(s) == Len(SelectSeq(s, LAMBDA e : e.res = Err("Interrupted")))

Last(s) == s[Len(s)]

\* the resource r after the invocation e has been made on it directly
Directly(r, e) == Invoke(e.name, r, e.arg, e.pop).inner

(* ------------------------------ Retry ---------------------------------- *)
\* variant: every error is retried, not only Interrupted
IsInterruptedAnyError(res) == res.tag = "Err"

\* variant: the retry is given up after one Interrupted failure
IsInterruptedCapped(res) ==
    res.tag = "Err" /\ res.kind = "Interrupted" /\ Interrupts(calls) < 1

\* the totals after one more read/write attempt with outcome res
Tally(t, res, returning) ==
    [attempts |-> t.attempts + 1,
     intrs |-> t.intrs + (IF res = Err("Interrupted") THEN 1 ELSE 0),
     done |-> t.done + (IF returning THEN 1 ELSE 0)]

\* variant: one retry is allowed to the wrapper over all its calls
IsInterruptedBudget(res) ==
    res.tag = "Err" /\ res.kind = "Interrupted" /\ totals.intrs < 1

\* variant: a count of zero is retried like an Interrupted failure
IsInterruptedOrZero(res) ==
    \/ res.tag = "Err" /\ res.kind = "Interrupted"
    \/ res.tag = "Ok" /\ res.n = 0 /\ Len(calls) < MaxIntr

\* the guard of the retrying arm
IsInterrupted(res) == res.tag = "Err" /\ res.kind = "Interrupted"

\* the environment stops interrupting a call after MaxIntr interruptions
Allowed(pop) ==
    pop = OpErr("Interrupted") => Interrupts(calls) < MaxIntr

Init ==
    /\ inner \in Resources
    /\ pc = "idle"
    /\ op = "new"
    /\ buf = <<>>
    /\ ret = NoRet
    /\ start = [inner |-> inner, buf |-> <<>>]
    /\ calls = <<>>
    /\ direct = inner
    /\ reclaimed = NotReclaimed
    /\ totals = [attempts |-> 0, intrs |-> 0, done |-> 0]

Begin(name, b, where) ==
    /\ pc = "idle"
    /\ pc' = where
    /\ op' = name
    /\ buf' = b
    /\ ret' = NoRet
    /\ start' = [inner |-> inner, buf |-> b]
    /\ calls' = <<>>
    /\ UNCHANGED <<inner, direct, reclaimed, totals>>

\* Retry::read is entered with the caller's buffer
ReadCall ==
    /\ inner.type = "PartialRead"
    /\ totals.done < MaxCalls
    /\ \E n \in 0..MaxLen : Begin("read", Zeros(n), "read")

\* variant: each retry reads into the buffer one byte further on
ReadAttemptAdvancing ==
    /\ pc = "read"
    /\ \E pop \in Choices(inner, "read") :
        /\ Allowed(pop)
        /\ LET k == Min(Interrupts(calls), Len(buf))
               r == InnerRead(inner, Drop(buf, k), pop)
           IN /\ inner' = r.inner
              /\ buf' = Prefix(buf, k) \o r.buf
              /\ calls' = Append(calls, Entry("read", Drop(buf, k), pop, r.res))
              /\ direct' = Directly(direct, Entry("read", Drop(buf, k), pop, r.res))
              /\ IF IsInterrupted(r.res)
                 THEN pc' = "read" /\ ret' = NoRet
                 ELSE pc' = "idle" /\ ret' = r.res
              /\ totals' = Tally(totals, r.res, ~IsInterrupted(r.res))
    /\ UNCHANGED <<op, start, reclaimed>>

\* one turn of the loop of Retry::read
ReadAttempt ==
    /\ pc = "read"
    /\ \E pop \in Choices(inner, "read") :
        /\ Allowed(pop)
        /\ LET r == InnerRead(inner, buf, pop)
           IN /\ inner' = r.inner
              /\ buf' = r.buf
              /\ calls' = Append(calls, Entry("read", buf, pop, r.res))
              /\ direct' = Directly(direct, Entry("read", buf, pop, r.res))
              /\ IF IsInterrupted(r.res)
                 THEN pc' = "read" /\ ret' = NoRet
                 ELSE pc' = "idle" /\ ret' = r.res
              /\ totals' = Tally(totals, r.res, ~IsInterrupted(r.res))
    /\ UNCHANGED <<op, start, reclaimed>>

\* Retry::write is entered with the caller's payload
WriteCall ==
    /\ inner.type = "PartialWrite"
    /\ totals.done < MaxCalls
    /\ \E n \in 0..MaxLen :
        /\ Len(inner.sink) + n <= MaxSink
        /\ Begin("write", Prefix(Data, n), "write")

\* variant: the same payload is written again until all of it is accepted
WriteAttemptUntilFull ==
    /\ pc = "write"
    /\ \E pop \in Choices(inner, "write") :
        /\ Allowed(pop)
        /\ LET r == InnerWrite(inner, buf, pop)
           IN /\ inner' = r.inner
              /\ buf' = r.buf
              /\ calls' = Append(calls, Entry("write", buf, pop, r.res))
              /\ direct' = Directly(direct, Entry("write", buf, pop, r.res))
              /\ IF IsInterrupted(r.res)
                    \/ (r.res.tag = "Ok" /\ r.res.n < Len(buf)
                        /\ Len(calls) < MaxIntr)
                 THEN pc' = "write" /\ ret' = NoRet /\ totals' = Tally(totals, r.res, FALSE)
                 ELSE pc' = "idle" /\ ret' = r.res /\ totals' = Tally(totals, r.res, TRUE)
    /\ UNCHANGED <<op, start, reclaimed>>

\* one turn of the loop of Retry::write
WriteAttempt ==
    /\ pc = "write"
    /\ \E pop \in Choices(inner, "write") :
        /\ Allowed(pop)
        /\ LET r == InnerWrite(inner, buf, pop)
           IN /\ inner' = r.inner
              /\ buf' = r.buf
              /\ calls' = Append(calls, Entry("write", buf, pop, r.res))
              /\ direct' = Directly(direct, Entry("write", buf, pop, r.res))
              /\ IF IsInterrupted(r.res)
                 THEN pc' = "write" /\ ret' = NoRet
                 ELSE pc' = "idle" /\ ret' = r.res
              /\ totals' = Tally(totals, r.res, ~IsInterrupted(r.res))
    /\ UNCHANGED <<op, start, reclaimed>>

\* Retry::fill_buf is entered
FillBufCall ==
    /\ inner.type = "BufReader"
    /\ Begin("fill_buf", <<>>, "fill_buf_loop")

\* variant: the view obtained in the loop is returned, with no further query
FillBufLoopDirect ==
    /\ pc = "fill_buf_loop"
    /\ \E pop \in Choices(inner, "fill_buf") :
        /\ Allowed(pop)
        /\ LET r == InnerFillBuf(inner, buf, pop)
           IN /\ inner' = r.inner
              /\ calls' = Append(calls, Entry("fill_buf", buf, pop, r.res))
              /\ direct' = Directly(direct, Entry("fill_buf", buf, pop, r.res))
              /\ IF IsInterrupted(r.res)
                 THEN pc' = "fill_buf_loop" /\ ret' = NoRet
                 ELSE pc' = "idle" /\ ret' = r.res
    /\ UNCHANGED <<op, buf, start, reclaimed, totals>>

\* one turn of the loop of Retry::fill_buf
FillBufLoop ==
    /\ pc = "fill_buf_loop"
    /\ \E pop \in Choices(inner, "fill_buf") :
        /\ Allowed(pop)
        /\ LET r == InnerFillBuf(inner, buf, pop)
           IN /\ inner' = r.inner
              /\ calls' = Append(calls, Entry("fill_buf", buf, pop, r.res))
              /\ direct' = Directly(direct, Entry("fill_buf", buf, pop, r.res))
              /\ IF r.res.tag = "OkView"
                 THEN pc' = "fill_buf_requery" /\ ret' = NoRet
                 ELSE IF IsInterrupted(r.res)
                 THEN pc' = "fill_buf_loop" /\ ret' = NoRet
                 ELSE pc' = "idle" /\ ret' = r.res
    /\ UNCHANGED <<op, buf, start, reclaimed, totals>>

\* variant: the query after the loop is repeated while it is Interrupted
FillBufRequeryRetrying ==
    /\ pc = "fill_buf_requery"
    /\ \E pop \in Choices(inner, "fill_buf") :
        /\ Allowed(pop)
        /\ LET r == InnerFillBuf(inner, buf, pop)
           IN /\ inner' = r.inner
              /\ calls' = Append(calls, Entry("fill_buf", buf, pop, r.res))
              /\ direct' = Directly(direct, Entry("fill_buf", buf, pop, r.res))
              /\ IF IsInterrupted(r.res)
                 THEN pc' = "fill_buf_requery" /\ ret' = NoRet
                 ELSE pc' = "idle" /\ ret' = r.res
    /\ UNCHANGED <<op, buf, start, reclaimed, totals>>

\* the query Retry::fill_buf makes after its loop, whose result it returns
FillBufRequery ==
    /\ pc = "fill_buf_requery"
    /\ \E pop \in Choices(inner, "fill_buf") :
        /\ Allowed(pop)
        /\ LET r == InnerFillBuf(inner, buf, pop)
           IN /\ inner' = r.inner
              /\ calls' = Append(calls, Entry("fill_buf", buf, pop, r.res))
              /\ direct' = Directly(direct, Entry("fill_buf", buf, pop, r.res))
              /\ pc' = "idle"
              /\ ret' = r.res
    /\ UNCHANGED <<op, buf, start, reclaimed, totals>>

\* variant: an Interrupted outcome makes the operation invoke once more
ForwardRetrying(name, b) ==
    /\ pc = "idle"
    /\ \E pop \in (IF name = "consume" THEN {NoIO} ELSE PartialOps) :
        LET r == Invoke(name, inner, b, pop)
            again == Invoke(name, inner, b, Limited(MaxLen))
        IN IF IsInterrupted(r.res)
           THEN /\ inner' = again.inner
                /\ buf' = again.buf
                /\ ret' = again.res
                /\ calls' = <<Entry(name, b, pop, r.res),
                              Entry(name, b, Limited(MaxLen), again.res)>>
                /\ direct' = again.inner
           ELSE /\ inner' = r.inner
                /\ buf' = r.buf
                /\ ret' = r.res
                /\ calls' = <<Entry(name, b, pop, r.res)>>
                /\ direct' = Directly(direct, Entry(name, b, pop, r.res))
    /\ op' = name
    /\ start' = [inner |-> inner, buf |-> b]
    /\ UNCHANGED <<pc, reclaimed, totals>>

\* an operation that is one invocation of the resource's operation
Forward(name, b) ==
    /\ pc = "idle"
    /\ \E pop \in (IF name = "consume" THEN {NoIO} ELSE PartialOps) :
        LET r == Invoke(name, inner, b, pop)
        IN /\ inner' = r.inner
           /\ buf' = r.buf
           /\ ret' = r.res
           /\ calls' = <<Entry(name, b, pop, r.res)>>
           /\ direct' = Directly(direct, Entry(name, b, pop, r.res))
    /\ op' = name
    /\ start' = [inner |-> inner, buf |-> b]
    /\ UNCHANGED <<pc, reclaimed, totals>>

Readable == inner.type \in {"PartialRead", "BufReader"}

\* variant: the buffer is refilled before the bytes are marked as read
consume_refilling ==
    /\ inner.type = "BufReader"
    /\ pc = "idle"
    /\ \E n \in 0..MaxLen :
        LET f == InnerFillBuf(inner, <<>>, Limited(MaxLen))
            c == InnerConsume(f.inner, n)
        IN /\ inner' = c
           /\ buf' = <<n>>
           /\ ret' = OkUnit
           /\ calls' = <<Entry("fill_buf", <<>>, Limited(MaxLen), f.res),
                         Entry("consume", <<n>>, NoIO, OkUnit)>>
           /\ direct' = c
           /\ start' = [inner |-> inner, buf |-> <<n>>]
    /\ op' = "consume"
    /\ UNCHANGED <<pc, reclaimed, totals>>

consume ==
    /\ inner.type = "BufReader"
    /\ \E n \in 0..MaxLen : Forward("consume", <<n>>)

read_to_end == Readable /\ Forward("read_to_end", <<>>)

read_to_string == Readable /\ Forward("read_to_string", <<>>)

read_exact == Readable /\ \E n \in 0..MaxLen : Forward("read_exact", Zeros(n))

read_until == inner.type = "BufReader" /\ Forward("read_until", <<>>)

read_line == inner.type = "BufReader" /\ Forward("read_line", <<>>)

flush == inner.type = "PartialWrite" /\ Forward("flush", <<>>)

write_all ==
    /\ inner.type = "PartialWrite"
    /\ \E n \in 0..MaxLen :
        /\ Len(inner.sink) + n <= MaxSink
        /\ Forward("write_all", Prefix(Data, n))

write_fmt ==
    /\ inner.type = "PartialWrite"
    /\ \E n \in 0..MaxLen :
        /\ Len(inner.sink) + n <= MaxSink
        /\ Forward("write_fmt", Prefix(Data, n))

\* variant: the resource is handed back without its buffered bytes
into_inner_unbuffered ==
    /\ pc = "idle"
    /\ pc' = "unwrapped"
    /\ reclaimed' = [inner EXCEPT !.buffer = <<>>]
    /\ UNCHANGED <<inner, op, buf, ret, start, calls, direct, totals>>

\* Retry::into_inner: the wrapper is consumed and the resource handed back
into_inner ==
    /\ pc = "idle"
    /\ pc' = "unwrapped"
    /\ reclaimed' = inner
    /\ UNCHANGED <<inner, op, buf, ret, start, calls, direct, totals>>

Next ==
    \/ ReadCall
    \/ ReadAttempt
    \/ WriteCall
    \/ WriteAttempt
    \/ FillBufCall
    \/ FillBufLoop
    \/ FillBufRequery
    \/ consume
    \/ read_to_end
    \/ read_to_string
    \/ read_exact
    \/ read_until
    \/ read_line
    \/ flush
    \/ write_all
    \/ write_fmt
    \/ into_inner

Spec == Init /\ [][Next]_vars

\* The calling thread runs: a call that has begun takes its next turn.
LiveSpec ==
    /\ Spec
    /\ WF_vars(ReadAttempt)
    /\ WF_vars(WriteAttempt)
    /\ WF_vars(FillBufLoop)
    /\ WF_vars(FillBufRequery)

(* ----------------------------- properties ------------------------------ *)
Primitives == {"read", "fill_buf", "write"}
Running == pc \in {"read", "write", "fill_buf_loop", "fill_buf_requery"}
Returned == pc \in {"idle", "unwrapped"} /\ op # "new"
AllInterrupted(s) == \A i \in 1..Len(s) : s[i].res = Err("Interrupted")
Terminal(res) == ~(res.tag = "Err" /\ res.kind = "Interrupted")

\* C1: a read or write call whose underlying outcomes are k Interrupted
\* failures followed by one terminal outcome returns exactly that terminal
\* outcome after k + 1 underlying attempts; while only Interrupted failures
\* have been seen the call has not returned.
C1_TerminalOutcome ==
    op \in {"read", "write"} =>
        LET c == calls
        IN IF Returned
           THEN /\ Len(c) >= 1
                /\ AllInterrupted(Prefix(c, Len(c) - 1))
                /\ Terminal(Last(c).res)
                /\ ret = Last(c).res
                /\ Len(c) = Interrupts(c) + 1
                /\ \A i \in 1..Len(c) : c[i].name = op
           ELSE AllInterrupted(c) /\ ret = NoRet

C1_Witness ==
    /\ op = "read"
    /\ Returned
    /\ Interrupts(calls) = 2
    /\ Len(calls) = 3
    /\ ret = Ok(MaxLen)

\* C2: no call to read, fill_buf or write returns an error of kind
\* Interrupted.
C2_NeverInterrupted ==
    (op \in Primitives /\ Returned) => Terminal(ret)

\* C3: a non-Interrupted error from an underlying attempt of read, fill_buf
\* or write is the last attempt of its call and is what the call returns,
\* unchanged; the attempts before it in the call were all retried ones.
C3_ErrorPropagates ==
    op \in Primitives =>
        LET c == calls
        IN \A i \in 1..Len(c) :
            (c[i].res.tag = "Err" /\ c[i].res.kind # "Interrupted") =>
                /\ i = Len(c)
                /\ Returned
                /\ ret = c[i].res
                /\ (i = 1 => Interrupts(c) = 0)

C3_Witness ==
    /\ op = "fill_buf"
    /\ Returned
    /\ Len(calls) = 1
    /\ ret = Err("PermissionDenied")

\* the loop of fill_buf has seen a successful refill
LoopSucceeded ==
    /\ op = "fill_buf"
    /\ \E i \in 1..Len(calls) :
        /\ calls[i].res.tag = "OkView"
        /\ AllInterrupted(Prefix(calls, i - 1))
        /\ i < Len(calls)

\* C4: once the loop of fill_buf has seen a successful refill, fill_buf
\* returns a buffer view, whatever the query after the loop answers.
C4_SettledView ==
    (LoopSucceeded /\ Returned) => ret.tag = "OkView"

\* C5: a read, fill_buf or write call has returned only if some underlying
\* attempt of the call had an outcome other than Interrupted (a call that
\* sees nothing but Interrupted keeps retrying), and once an attempt of the
\* call has had such an outcome the call eventually returns.
C5_ReturnsIffTerminal ==
    /\ []((op \in Primitives /\ Returned) => ~AllInterrupted(calls))
    /\ []((op \in Primitives /\ ~AllInterrupted(calls)) => <>Returned)

C5_Witness ==
    /\ op = "fill_buf"
    /\ pc = "fill_buf_requery"
    /\ Interrupts(calls) = 2
    /\ ~AllInterrupted(calls)

\* C6: when a read or write call succeeds, the returned count and the
\* caller's buffer are what a single attempt with the same outcome gives on
\* the resource as it was when the call began, however many Interrupted
\* attempts came before it.
C6_InterruptsInvisible ==
    (op \in {"read", "write"} /\ Returned /\ ret.tag = "Ok") =>
        LET once == Invoke(op, start.inner, start.buf, Last(calls).pop)
        IN ret = once.res /\ buf = once.buf

C6_Witness ==
    /\ op = "read"
    /\ Returned
    /\ Interrupts(calls) = 2
    /\ ret = Ok(1)
    /\ buf = <<1, 0>>

\* C7: a composite operation makes exactly one invocation on the resource,
\* of the operation of the same name with the caller's argument, and
\* returns its result unchanged, an Interrupted error included.
C7_ForwardedOnce ==
    op \in Composites =>
        /\ Returned
        /\ Len(calls) = 1
        /\ calls[1].name = op
        /\ calls[1].arg = start.buf
        /\ ret = calls[1].res

C7_Witness ==
    /\ op = "read_line"
    /\ Returned
    /\ ret = Err("Interrupted")
    /\ Len(calls) = 1

\* C8: into_inner makes no invocation on the resource and hands back the
\* resource in the state that the invocations made so far, the retried
\* ones included, give when made directly on the original resource.
C8_Reclaimed ==
    [][(pc # "unwrapped" /\ pc' = "unwrapped") =>
        /\ calls' = calls
        /\ direct' = direct
        /\ reclaimed' = direct]_vars

C8_Witness ==
    /\ pc = "unwrapped"
    /\ reclaimed.type = "BufReader"
    /\ reclaimed.buffer # <<>>
    /\ reclaimed.input # Data
    /\ Interrupts(calls) >= 1

\* C9: after a write call of k Interrupted attempts and a success accepting
\* n bytes, the call has returned n and the reclaimed sink holds what it
\* held before the call followed by the first n bytes of the payload.
C9_SinkExact ==
    (pc = "unwrapped" /\ op = "write" /\ ret.tag = "Ok") =>
        /\ ret = Last(calls).res
        /\ ret.n <= Len(start.buf)
        /\ reclaimed.sink = start.inner.sink \o Prefix(start.buf, ret.n)

C9_Witness ==
    /\ pc = "unwrapped"
    /\ op = "write"
    /\ Interrupts(calls) = 2
    /\ ret = Ok(MaxLen)
    /\ reclaimed.sink = Data

\* C10: a fill_buf call whose refill fails k >= 1 times with Interrupted
\* and then buffers the bytes B returns a view of exactly B, and B is still
\* buffered, unread, after the call.
C10_ViewOfRefill ==
    (op = "fill_buf" /\ Returned) =>
        \A k \in 1..Len(calls) - 1 :
            (AllInterrupted(Prefix(calls, k)) /\ calls[k + 1].res.tag = "OkView") =>
                /\ ret = calls[k + 1].res
                /\ inner.buffer = ret.view

\* C11: a successful count from an underlying read or write attempt, zero
\* or short of the buffer's length included, is the last attempt of its
\* call and is what the call returns.
C11_CountEndsLoop ==
    op \in {"read", "write"} =>
        \A i \in 1..Len(calls) :
            calls[i].res.tag = "Ok" =>
                /\ i = Len(calls)
                /\ Returned
                /\ ret = calls[i].res

C11_Witness ==
    /\ op = "read"
    /\ Returned
    /\ ret = Ok(0)
    /\ Len(start.buf) = MaxLen
    /\ start.inner.input # <<>>
    /\ inner.input = start.inner.input
    /\ Interrupts(calls) >= 1

\* C12: consume(n) makes exactly one invocation on the resource, its
\* consume with the same n; nothing is read or refilled, and the resource
\* is left as that one consume leaves it.
C12_ConsumeOnce ==
    op = "consume" =>
        /\ Returned
        /\ Len(calls) = 1
        /\ calls[1].name = "consume"
        /\ calls[1].arg = start.buf
        /\ inner = InnerConsume(start.inner, start.buf[1])
        /\ inner.input = start.inner.input

C12_Witness ==
    /\ op = "consume"
    /\ Returned
    /\ start.buf = <<1>>
    /\ start.inner.buffer # <<>>
    /\ Len(inner.buffer) = Len(start.inner.buffer) - 1

\* C13: over any sequence of read/write calls the underlying attempts made
\* are the Interrupted outcomes plus one per completed call, and each
\* completed call returns the last outcome of its own attempts, whatever
\* the calls before it met.
C13_NoCarriedState ==
    /\ totals.attempts = totals.intrs + totals.done
    /\ (op \in {"read", "write"} /\ Returned) =>
            /\ ret = Last(calls).res
            /\ Len(calls) = Interrupts(calls) + 1

C13_Witness ==
    /\ op \in {"read", "write"}
    /\ Returned
    /\ totals.done = 2
    /\ totals.intrs = 3
    /\ totals.attempts = 5
    /\ Interrupts(calls) = 1

\* every attempt of the call but the last had the outcome Interrupted
OnlyAfterInterrupted == AllInterrupted(Prefix(calls, Len(calls) - 1))

\* C14: in a read, fill_buf or write call a new underlying attempt is made
\* only after an Interrupted outcome; after a success or a non-Interrupted
\* error the call makes no further attempt.
C14_ThreeStates ==
    op \in Primitives => OnlyAfterInterrupted

\* C14 as amended: read and write make a new attempt only after an
\* Interrupted outcome; fill_buf does too, except that the first success
\* of its loop is followed by exactly one more attempt, after which the
\* call has returned; no call makes an attempt after a non-Interrupted
\* error.
C14_ThreeStatesButRequery ==
    /\ op \in {"read", "write"} => OnlyAfterInterrupted
    /\ op = "fill_buf" =>
        \A i \in 1..Len(calls) - 1 :
            \/ calls[i].res = Err("Interrupted")
            \/ /\ calls[i].res.tag = "OkView"
               /\ AllInterrupted(Prefix(calls, i - 1))
               /\ i = Len(calls) - 1
               /\ Returned
    /\ (op = "fill_buf" /\ pc = "fill_buf_loop") => AllInterrupted(calls)
    /\ (op = "fill_buf" /\ pc = "fill_buf_requery") =>
            OnlyAfterInterrupted /\ Len(calls) >= 1 /\ Last(calls).res.tag = "OkView"

C14_Witness ==
    /\ op = "fill_buf"
    /\ Returned
    /\ Len(calls) = 3
    /\ calls[1].res = Err("Interrupted")
    /\ calls[2].res.tag = "OkView"
    /\ calls[3].res = Err("WouldBlock")

\* the number of Interrupted outcomes the call met before any other
RECURSIVE LeadingInterrupts(_)
LeadingInterrupts(s) ==
    IF s = <<>> \/ s[1].res # Err("Interrupted") THEN 0
    ELSE 1 + LeadingInterrupts(Tail(s))

\* C15: a fill_buf call whose loop meets k Interrupted failures and then a
\* success has invoked the resource's fill_buf k + 2 times when it returns;
\* one whose loop ends on a non-Interrupted error has invoked it k + 1
\* times.
C15_FillBufCount ==
    (op = "fill_buf" /\ Returned) =>
        LET k == LeadingInterrupts(calls)
        IN /\ k < Len(calls)
           /\ \A i \in 1..Len(calls) : calls[i].name = "fill_buf"
           /\ calls[k + 1].res.tag = "OkView" => Len(calls) = k + 2
           /\ calls[k + 1].res.tag = "Err" => Len(calls) = k + 1

C15_Witness ==
    /\ op = "fill_buf"
    /\ Returned
    /\ LeadingInterrupts(calls) = 2
    /\ Len(calls) = 4
    /\ calls[3].res = OkView(<<1>>)
    /\ ret = OkView(<<1>>)

C17_SameBuffer ==
    op \in {"read", "write"} =>
        \A i \in 1..Len(calls) : calls[i].arg = start.buf

C17_Witness ==
    /\ op = "write"
    /\ Returned
    /\ Len(calls) = 3
    /\ start.buf = Data
    /\ ret = Ok(1)
====
